---- MODULE Spec2Model ----
(***************************************************************************)
(* A model of the two lexical matching primitives of in3120:               *)
(*   - StringFinder.scan   (src/in3120/stringfinder.py)                    *)
(*   - SuffixArray.evaluate and SuffixArray._build_suffix_array            *)
(*                         (src/in3120/suffixarray.py)                     *)
(* Strings are sequences of code points, so that Python's string order is  *)
(* the lexicographic order of the sequences.  Offsets are Python's: a      *)
(* 0-based offset o of a buffer b is the element b[o + 1] here.            *)
(***************************************************************************)
EXTENDS Integers, Sequences, FiniteSets, TLC

(* The code points of the characters the model uses. *)
Chr == [nul |-> 0, tab |-> 9, sp |-> 32, comma |-> 44, A |-> 65, a |-> 97, b |-> 98]

(***************************************************************************)
(* Bounds.                                                                 *)
(***************************************************************************)
MaxLen == 4      \* longest buffer handed to StringFinder.scan
MaxQuery == 2    \* longest raw query handed to SuffixArray.evaluate
MaxHit == 2      \* largest hit_count of an Options object
NumDocs == 2     \* number of documents of the corpus

(* Options.hit_count's default. *)
DefaultHitCount == 10

VARIABLES
    \* ---- StringFinder.scan ----
    dictionary,     \* the strings the trie was built from
    buffer,         \* scan's argument
    terms,          \* analyzer.terms(buffer): records [token, begin, end]
    tok,            \* index (1-based) of the token being processed
    ci,             \* index (1-based) of the next character of that token
    active_states,  \* the list of State records [node, begin, match]
    results,        \* the Result records yielded so far, in order
    spc,            \* scan's position: "token", "chars", "done"
    \* ---- SuffixArray ----
    haystack,       \* _haystack: sequence of [doc_id, text]
    suffixes,       \* _suffixes: sorted sequence of <<haystack index, offset>>
    query,          \* evaluate's query argument
    options,        \* evaluate's options argument: None or [hit_count]
    query_norm,     \* evaluate's local query_norm
    start,          \* evaluate's local start (0-based index into _suffixes)
    examined,       \* how many elements of _suffixes[start:] takewhile has tested
    counts,         \* the Counter, as the sequence of <<doc_id, count>> in insertion order
    ranked,         \* counts.most_common(hit_count), once computed
    yielded,        \* the Result records [document, score] handed to the caller so far
    epc             \* evaluate's position

scanVars == <<dictionary, buffer, terms, tok, ci, active_states, results, spc>>
evalVars == <<haystack, suffixes, query, options, query_norm, start, examined,
              counts, ranked, yielded, epc>>
vars == <<dictionary, buffer, terms, tok, ci, active_states, results, spc,
          haystack, suffixes, query, options, query_norm, start, examined,
          counts, ranked, yielded, epc>>

(***************************************************************************)
(* Strings.                                                                *)
(***************************************************************************)
SeqsUpTo(S, n) == UNION {[1..k -> S] : k \in 0..n}

IsPrefix(p, s) == Len(p) <= Len(s) /\ \A k \in 1..Len(p) : p[k] = s[k]

(* Python's s < t on strings: lexicographic by code point. *)
StrLess(s, t) ==
    \/ Len(s) < Len(t) /\ IsPrefix(s, t)
    \/ \E k \in 1..Len(s) :
          /\ k <= Len(t)
          /\ s[k] < t[k]
          /\ \A m \in 1..(k - 1) : s[m] = t[m]

(* Python's s[o:] for a 0-based offset o. *)
SliceFrom(s, o) == SubSeq(s, o + 1, Len(s))

(* Python's s[b:e] for 0-based offsets. *)
Slice(s, b, e) == SubSeq(s, b + 1, e)

(***************************************************************************)
(* The analyzer: a tokenizer that takes the maximal runs of letters as the *)
(* tokens and a normalizer that lower-cases them.                          *)
(***************************************************************************)
IsLetter(c) == c \in {Chr.a, Chr.b, Chr.A}

IsWhitespace(c) == c \in {Chr.sp, Chr.tab}

NormalizeChar(c) == IF c = Chr.A THEN Chr.a ELSE c

NormalizeToken(s) == [k \in 1..Len(s) |-> NormalizeChar(s[k])]

(* The last position (1-based) of the token that starts at position i. *)
TokenLast(b, i) ==
    CHOOSE j \in i..Len(b) :
        /\ \A k \in i..j : IsLetter(b[k])
        /\ j = Len(b) \/ ~IsLetter(b[j + 1])

RECURSIVE TermsFrom(_, _)
TermsFrom(b, i) ==
    IF i > Len(b) THEN <<>>
    ELSE IF ~IsLetter(b[i]) THEN TermsFrom(b, i + 1)
    ELSE LET j == TokenLast(b, i)
         IN  <<[token |-> NormalizeToken(SubSeq(b, i, j)), begin |-> i - 1, end |-> j]>>
                 \o TermsFrom(b, j + 1)

(* analyzer.terms(buffer): the (term, (begin, end)) pairs, in buffer order. *)
AnalyzerTerms(b) == TermsFrom(b, 1)

RECURSIVE JoinWithSpaces(_)
JoinWithSpaces(ss) ==
    IF Len(ss) = 0 THEN <<>>
    ELSE IF Len(ss) = 1 THEN ss[1]
    ELSE ss[1] \o <<Chr.sp>> \o JoinWithSpaces(Tail(ss))

(* analyzer.join(text): the normalized tokens joined by single spaces. *)
AnalyzerJoin(text) ==
    LET ts == AnalyzerTerms(text)
    IN  JoinWithSpaces([k \in 1..Len(ts) |-> ts[k].token])

(***************************************************************************)
(* The trie, built from the dictionary.  A node is the string that leads   *)
(* to it from the root.                                                    *)
(***************************************************************************)
TrieRoot == <<>>

HasChild(dict, node, c) == \E e \in dict : IsPrefix(Append(node, c), e)

Child(node, c) == Append(node, c)

IsFinal(dict, node) == node \in dict

(***************************************************************************)
(* StringFinder.scan                                                       *)
(***************************************************************************)
NewState(token_begin) == [node |-> TrieRoot, begin |-> token_begin, match |-> <<>>]

(* One round of the loop over a token's characters: the states whose node  *)
(* has a child for char move to it, the others die.                        *)
AdvanceStates(dict, states, char) ==
    LET surviving_states == SelectSeq(states, LAMBDA s : HasChild(dict, s.node, char))
    IN  [k \in 1..Len(surviving_states) |->
            [node  |-> Child(surviving_states[k].node, char),
             begin |-> surviving_states[k].begin,
             match |-> Append(surviving_states[k].match, char)]]

(* The last position (1-based) of the run of non-whitespace that starts at i. *)
WordLast(s, i) ==
    CHOOSE j \in i..Len(s) :
        /\ \A k \in i..j : ~IsWhitespace(s[k])
        /\ j = Len(s) \/ IsWhitespace(s[j + 1])

RECURSIVE SplitFrom(_, _)
SplitFrom(s, i) ==
    IF i > Len(s) THEN <<>>
    ELSE IF IsWhitespace(s[i]) THEN SplitFrom(s, i + 1)
    ELSE LET j == WordLast(s, i)
         IN  <<SubSeq(s, i, j)>> \o SplitFrom(s, j + 1)

(* " ".join(phrase.split()) *)
CleanPhrase(phrase) == JoinWithSpaces(SplitFrom(phrase, 1))

(* EmitResults without the is_final() test. *)
EmitResultsOfEveryState(dict, buf, states, token_end) ==
    [k \in 1..Len(states) |->
        [match   |-> states[k].match,
         surface |-> CleanPhrase(Slice(buf, states[k].begin, token_end)),
         begin   |-> states[k].begin,
         end     |-> token_end]]

(* The results the end-of-token loop yields, in the order of the states. *)
EmitResults(dict, buf, states, token_end) ==
    LET accepting == SelectSeq(states, LAMBDA s : IsFinal(dict, s.node))
    IN  [k \in 1..Len(accepting) |->
            [match   |-> accepting[k].match,
             surface |-> CleanPhrase(Slice(buf, accepting[k].begin, token_end)),
             begin   |-> accepting[k].begin,
             end     |-> token_end]]

(* token_end < len(buffer) and buffer[token_end] == " " *)
SpaceFollows(buf, token_end) == token_end < Len(buf) /\ buf[token_end + 1] = Chr.sp

(* ContinueStates with the continuation test in the else branch of is_final(). *)
ContinueOnlyUnaccepted(dict, buf, states, token_end) ==
    LET can == SelectSeq(states, LAMBDA s :
                   /\ ~IsFinal(dict, s.node)
                   /\ token_end < Len(buf) /\ buf[token_end + 1] = Chr.sp
                   /\ HasChild(dict, s.node, Chr.sp))
    IN  [k \in 1..Len(can) |->
            [node  |-> Child(can[k].node, Chr.sp),
             begin |-> can[k].begin,
             match |-> Append(can[k].match, Chr.sp)]]

(* new_surviving_states: the states that move across the space after the token. *)
ContinueStates(dict, buf, states, token_end) ==
    LET can == SelectSeq(states, LAMBDA s :
                   SpaceFollows(buf, token_end) /\ HasChild(dict, s.node, Chr.sp))
    IN  [k \in 1..Len(can) |->
            [node  |-> Child(can[k].node, Chr.sp),
             begin |-> can[k].begin,
             match |-> Append(can[k].match, Chr.sp)]]

(* active_states after the end-of-token step: replaced by new_surviving_states *)
(* when a space follows the token, and left as it is otherwise.               *)
CarryStates(dict, buf, states, token_end) ==
    IF SpaceFollows(buf, token_end)
    THEN ContinueStates(dict, buf, states, token_end)
    ELSE states

(* The inputs of a scan. *)
BufferAlphabet == {Chr.a, Chr.b, Chr.A, Chr.sp, Chr.tab, Chr.comma}

Buffers == SeqsUpTo(BufferAlphabet, MaxLen)

Dictionaries ==
    { {<<Chr.a, Chr.sp, Chr.b>>},
      {<<Chr.a, Chr.b>>},
      {<<Chr.a>>, <<Chr.a, Chr.sp, Chr.b>>},
      {<<Chr.a>>, <<Chr.a, Chr.sp, Chr.b>>, <<Chr.b>>},
      {<<Chr.a>>, <<Chr.b>>, <<Chr.a, Chr.b>>} }

ScanIdle ==
    /\ dictionary = {}
    /\ buffer = <<>>
    /\ terms = <<>>
    /\ tok = 1
    /\ ci = 1
    /\ active_states = <<>>
    /\ results = <<>>
    /\ spc = "done"

EvalIdle ==
    /\ haystack = <<>>
    /\ suffixes = <<>>
    /\ query = <<>>
    /\ options = [hit_count |-> DefaultHitCount]
    /\ query_norm = <<>>
    /\ start = 0
    /\ examined = 0
    /\ counts = <<>>
    /\ ranked = <<>>
    /\ yielded = <<>>
    /\ epc = "done"

(* scan(buffer) up to the head of the loop over the terms. *)
InitScan ==
    /\ dictionary \in Dictionaries
    /\ buffer \in Buffers
    /\ terms = AnalyzerTerms(buffer)
    /\ tok = 1
    /\ ci = 1
    /\ active_states = <<>>
    /\ results = <<>>
    /\ spc = "token"
    /\ EvalIdle

(* The head of the loop over the terms: a new state is born at the token. *)
ScanStartToken ==
    /\ spc = "token"
    /\ tok <= Len(terms)
    /\ active_states' = Append(active_states, NewState(terms[tok].begin))
    /\ ci' = 1
    /\ spc' = "chars"
    /\ UNCHANGED <<dictionary, buffer, terms, tok, results>>

(* One character of the current token. *)
ScanChar ==
    /\ spc = "chars"
    /\ ci <= Len(terms[tok].token)
    /\ active_states' = AdvanceStates(dictionary, active_states, terms[tok].token[ci])
    /\ ci' = ci + 1
    /\ UNCHANGED <<dictionary, buffer, terms, tok, results, spc>>

(* The end of the current token: the accepting states yield, and the states *)
(* for the next token are chosen.                                           *)
ScanEndToken ==
    /\ spc = "chars"
    /\ ci > Len(terms[tok].token)
    /\ results' = results \o EmitResults(dictionary, buffer, active_states, terms[tok].end)
    /\ active_states' = CarryStates(dictionary, buffer, active_states, terms[tok].end)
    /\ tok' = tok + 1
    /\ spc' = "token"
    /\ UNCHANGED <<dictionary, buffer, terms, ci>>

(* The loop over the terms is exhausted: the generator returns. *)
ScanFinish ==
    /\ spc = "token"
    /\ tok > Len(terms)
    /\ spc' = "done"
    /\ UNCHANGED <<dictionary, buffer, terms, tok, ci, active_states, results>>

NextScan ==
    \/ ScanStartToken /\ UNCHANGED evalVars
    \/ ScanChar /\ UNCHANGED evalVars
    \/ ScanEndToken /\ UNCHANGED evalVars
    \/ ScanFinish /\ UNCHANGED evalVars

SpecScan == InitScan /\ [][NextScan]_vars

(***************************************************************************)
(* SuffixArray                                                             *)
(***************************************************************************)
None == [is_none |-> TRUE]

Options(k) == [is_none |-> FALSE, hit_count |-> k]

(* delimiter = " \0 " *)
Delimiter == <<Chr.sp, Chr.nul, Chr.sp>>

RECURSIVE DocText(_, _)
DocText(doc, fields) ==
    IF Len(fields) = 0 THEN <<>>
    ELSE AnalyzerJoin(doc[Head(fields)]) \o Delimiter \o DocText(doc, Tail(fields))

(* The first loop of _build_suffix_array: one (doc_id, text) pair per document. *)
BuildHaystack(corpus, fields) ==
    [k \in 1..Len(corpus) |->
        [doc_id |-> corpus[k].doc_id, text |-> DocText(corpus[k], fields)]]

(* offset == 0 or content[offset - 1] in (" ", "\0") *)
IsBoundary(content, offset) ==
    offset = 0 \/ content[offset] \in {Chr.sp, Chr.nul}

RECURSIVE OffsetsFrom(_, _, _)
OffsetsFrom(content, doc_index, offset) ==
    IF offset >= Len(content) THEN <<>>
    ELSE (IF IsBoundary(content, offset) THEN <<(<<doc_index, offset>>)>> ELSE <<>>)
             \o OffsetsFrom(content, doc_index, offset + 1)

RECURSIVE PointersFrom(_, _)
PointersFrom(hay, doc_index) ==
    IF doc_index >= Len(hay) THEN <<>>
    ELSE OffsetsFrom(hay[doc_index + 1].text, doc_index, 0)
             \o PointersFrom(hay, doc_index + 1)

(* The second loop of _build_suffix_array: the pointers in the order appended. *)
UnsortedSuffixes(hay) == PointersFrom(hay, 0)

(* _get_suffix(pair) *)
GetSuffix(hay, pair) == SliceFrom(hay[pair[1] + 1].text, pair[2])

(* list.sort(key) is stable: a pair goes after every pair whose key is not greater. *)
InsertByKey(hay, sorted, pair) ==
    LET n == Cardinality({k \in 1..Len(sorted) :
                 ~StrLess(GetSuffix(hay, pair), GetSuffix(hay, sorted[k]))})
    IN  SubSeq(sorted, 1, n) \o <<pair>> \o SubSeq(sorted, n + 1, Len(sorted))

RECURSIVE SortFrom(_, _, _, _)
SortFrom(hay, pairs, k, sorted) ==
    IF k > Len(pairs) THEN sorted
    ELSE SortFrom(hay, pairs, k + 1, InsertByKey(hay, sorted, pairs[k]))

(* SortSuffixes without the sort: the pointers stay in (document, offset) order. *)
LeaveUnsorted(hay, pairs) == pairs

(* self._suffixes.sort(key=lambda pair: self._haystack[pair[0]][1][pair[1]:]) *)
SortSuffixes(hay, pairs) == SortFrom(hay, pairs, 1, <<>>)

BuildSuffixArray(hay) == SortSuffixes(hay, UnsortedSuffixes(hay))

(* matching(pair) *)
Matching(hay, pair, q) == IsPrefix(q, GetSuffix(hay, pair))

RECURSIVE BisectLoop(_, _, _, _, _)
BisectLoop(hay, sfx, x, lo, hi) ==
    IF lo < hi
    THEN LET mid == (lo + hi) \div 2
         IN  IF StrLess(GetSuffix(hay, sfx[mid + 1]), x)
             THEN BisectLoop(hay, sfx, x, mid + 1, hi)
             ELSE BisectLoop(hay, sfx, x, lo, mid)
    ELSE lo

(* bisect_left(self._suffixes, query_norm, key=self._get_suffix) *)
BisectLeft(hay, sfx, x) == BisectLoop(hay, sfx, x, 0, Len(sfx))

(* TakeWhileContinues that gives up after the first pointer. *)
TakeWhileFirstOnly(hay, sfx, st, ex, q) ==
    /\ ex < 1
    /\ st + ex < Len(sfx)
    /\ Matching(hay, sfx[st + ex + 1], q)

(* takewhile's test of the next element of self._suffixes[start:] *)
TakeWhileContinues(hay, sfx, st, ex, q) ==
    /\ st + ex < Len(sfx)
    /\ Matching(hay, sfx[st + ex + 1], q)

(* CounterUpdate that records the document without counting the occurrences. *)
CounterMark(cnt, doc_id) ==
    IF \E k \in 1..Len(cnt) : cnt[k][1] = doc_id THEN cnt ELSE Append(cnt, <<doc_id, 1>>)

(* counts.update([doc_id]) *)
CounterUpdate(cnt, doc_id) ==
    IF \E k \in 1..Len(cnt) : cnt[k][1] = doc_id
    THEN [k \in 1..Len(cnt) |->
             IF cnt[k][1] = doc_id THEN <<doc_id, cnt[k][2] + 1>> ELSE cnt[k]]
    ELSE Append(cnt, <<doc_id, 1>>)

(* The place of item k of the Counter in sorted(items, key=count, reverse=True). *)
RankOf(cnt, k) ==
    Cardinality({m \in 1..Len(cnt) :
        cnt[m][2] > cnt[k][2] \/ (cnt[m][2] = cnt[k][2] /\ m <= k)})

(* MostCommon without the limit: every item, largest count first. *)
MostCommonUnlimited(cnt, n) ==
    [r \in 1..Len(cnt) |-> cnt[CHOOSE k \in 1..Len(cnt) : RankOf(cnt, k) = r]]

(* counts.most_common(n): the n items with the largest counts, largest first, *)
(* the items of equal count in the Counter's insertion order.                 *)
MostCommon(cnt, n) ==
    LET all == [r \in 1..Len(cnt) |-> cnt[CHOOSE k \in 1..Len(cnt) : RankOf(cnt, k) = r]]
    IN  IF n <= 0 THEN <<>>
        ELSE IF n < Len(all) THEN SubSeq(all, 1, n) ELSE all

(* The inputs: the corpus, the fields to index, the query and the options. *)
Documents ==
    { [title |-> <<Chr.a>>,        body |-> <<Chr.a, Chr.sp, Chr.a>>],
      [title |-> <<Chr.b>>,        body |-> <<Chr.a, Chr.b>>],
      [title |-> <<>>,             body |-> <<Chr.b, Chr.sp, Chr.a>>],
      [title |-> <<Chr.A>>,        body |-> <<Chr.A, Chr.sp, Chr.sp, Chr.b>>],
      [title |-> <<Chr.b, Chr.a>>, body |-> <<>>] }

FieldLists == { <<"body">>, <<"title", "body">> }

(* A corpus gives its documents the identifiers 0, 1, ... *)
Corpora ==
    { [k \in 1..NumDocs |-> [doc_id |-> k - 1, title |-> ds[k].title, body |-> ds[k].body]]
        : ds \in [1..NumDocs -> Documents] }

Queries == SeqsUpTo({Chr.a, Chr.b, Chr.sp}, MaxQuery)

OptionsArgs == {None} \cup {Options(k) : k \in 1..MaxHit}

(* The index as __init__ leaves it, and a call of evaluate not yet started. *)
InitEval ==
    /\ \E corpus \in Corpora, fields \in FieldLists :
          /\ haystack = BuildHaystack(corpus, fields)
          /\ suffixes = BuildSuffixArray(haystack)
    /\ query \in Queries
    /\ options \in OptionsArgs
    /\ query_norm = <<>>
    /\ start = 0
    /\ examined = 0
    /\ counts = <<>>
    /\ ranked = <<>>
    /\ yielded = <<>>
    /\ epc = "created"
    /\ ScanIdle

(* The first next(): the query is normalized; an empty one ends the generator. *)
EvalNormalize ==
    /\ epc = "created"
    /\ query_norm' = AnalyzerJoin(query)
    /\ epc' = IF query_norm' = <<>> THEN "done" ELSE "bisect"
    /\ UNCHANGED <<haystack, suffixes, query, options, start, examined, counts,
                   ranked, yielded>>

EvalBisect ==
    /\ epc = "bisect"
    /\ start' = BisectLeft(haystack, suffixes, query_norm)
    /\ epc' = "scan"
    /\ UNCHANGED <<haystack, suffixes, query, options, query_norm, examined, counts,
                   ranked, yielded>>

(* One round of the loop over matching_suffixes: takewhile tests the next  *)
(* pointer; a match is counted, anything else ends the loop.               *)
EvalScan ==
    /\ epc = "scan"
    /\ IF TakeWhileContinues(haystack, suffixes, start, examined, query_norm)
       THEN /\ counts' = CounterUpdate(counts,
                             haystack[suffixes[start + examined + 1][1] + 1].doc_id)
            /\ examined' = examined + 1
            /\ epc' = epc
       ELSE /\ counts' = counts
            /\ examined' = IF start + examined < Len(suffixes)
                           THEN examined + 1 ELSE examined
            /\ epc' = "rank"
    /\ UNCHANGED <<haystack, suffixes, query, options, query_norm, start, ranked, yielded>>

(* counts.most_common(options.hit_count): options.hit_count raises an       *)
(* AttributeError when options is None.                                     *)
EvalRank ==
    /\ epc = "rank"
    /\ IF options.is_none
       THEN /\ epc' = "raised"
            /\ ranked' = ranked
       ELSE /\ ranked' = MostCommon(counts, options.hit_count)
            /\ epc' = "yield"
    /\ UNCHANGED <<haystack, suffixes, query, options, query_norm, start, examined,
                   counts, yielded>>

(* yield SuffixArray.Result(document, score) *)
EvalYield ==
    /\ epc = "yield"
    /\ Len(yielded) < Len(ranked)
    /\ yielded' = Append(yielded,
                      [document |-> ranked[Len(yielded) + 1][1],
                       score    |-> ranked[Len(yielded) + 1][2]])
    /\ UNCHANGED <<haystack, suffixes, query, options, query_norm, start, examined,
                   counts, ranked, epc>>

EvalFinish ==
    /\ epc = "yield"
    /\ Len(yielded) = Len(ranked)
    /\ epc' = "done"
    /\ UNCHANGED <<haystack, suffixes, query, options, query_norm, start, examined,
                   counts, ranked, yielded>>

NextEval ==
    \/ EvalNormalize /\ UNCHANGED scanVars
    \/ EvalBisect /\ UNCHANGED scanVars
    \/ EvalScan /\ UNCHANGED scanVars
    \/ EvalRank /\ UNCHANGED scanVars
    \/ EvalYield /\ UNCHANGED scanVars
    \/ EvalFinish /\ UNCHANGED scanVars

SpecEval == InitEval /\ [][NextEval]_vars

(***************************************************************************)
(* Properties of StringFinder.scan (checked under SpecScan).               *)
(***************************************************************************)
Range(seq) == {seq[k] : k \in 1..Len(seq)}

TokenIdx == 1..Len(terms)

(* The tokens i..j follow each other with exactly one space in between. *)
SingleSpaced(i, j) ==
    \A k \in i..(j - 1) :
        /\ terms[k + 1].begin = terms[k].end + 1
        /\ buffer[terms[k].end + 1] = Chr.sp

(* The normalized tokens i..j joined by single spaces. *)
JoinTokens(i, j) == JoinWithSpaces([k \in 1..(j - i + 1) |-> terms[i + k - 1].token])

BigApple == <<Chr.a, Chr.sp, Chr.b>>

(* C1: a state that is inside a multi-word entry (the last thing it        *)
(* consumed before the current token is the space after the token before   *)
(* it) consumes characters of the current token only if the current token  *)
(* starts exactly one character after the previous token ends and that     *)
(* character is a space; so with the dictionary {"a b"}, scan("a b")       *)
(* yields the match "a b" and scan("a  b") yields nothing.                 *)
C1_SingleSpaceContinuation ==
    /\ (spc = "chars" /\ ci > 1) =>
          \A s \in Range(active_states) :
              (/\ s.begin < terms[tok].begin
               /\ s.match[Len(s.match) - (ci - 1)] = Chr.sp) =>
                  /\ terms[tok].begin = terms[tok - 1].end + 1
                  /\ buffer[terms[tok - 1].end + 1] = Chr.sp
    /\ (spc = "done" /\ dictionary = {BigApple}) =>
          /\ buffer = <<Chr.a, Chr.sp, Chr.b>> =>
                \E r \in Range(results) : r.match = BigApple
          /\ buffer = <<Chr.a, Chr.sp, Chr.sp, Chr.b>> => results = <<>>

(* C4: when the scan is over, every run of tokens i..j that are separated  *)
(* by exactly one space each and whose normalized forms joined by single   *)
(* spaces are a dictionary entry e has a result with match e, begin the    *)
(* start of token i and end the end of token j.                            *)
C4_Completeness ==
    spc = "done" =>
        \A i \in TokenIdx : \A j \in i..Len(terms) :
            (SingleSpaced(i, j) /\ JoinTokens(i, j) \in dictionary) =>
                \E r \in Range(results) :
                    /\ r.match = JoinTokens(i, j)
                    /\ r.begin = terms[i].begin
                    /\ r.end = terms[j].end

(* C4's case: an entry and a longer entry it is a prefix of are both yielded *)
(* at the same begin, and an overlapping entry is yielded at a later begin.  *)
C4_Witness ==
    /\ spc = "done"
    /\ \E r1 \in Range(results) : \E r2 \in Range(results) : \E r3 \in Range(results) :
          /\ r1.begin = r2.begin
          /\ r1.match = <<Chr.a>>
          /\ r2.match = BigApple
          /\ r3.begin > r1.begin
          /\ r3.end = r2.end
          /\ r3.match = <<Chr.b>>

(* C6: every result begins at the start of a token and ends at the end of  *)
(* that token or a later one, with begin < end, and its match is the path  *)
(* to an accepting node; a state that is alive but not accepting yields    *)
(* nothing.                                                                *)
C6_TokenBoundaries ==
    \A r \in Range(results) :
        /\ \E i \in TokenIdx : \E j \in i..Len(terms) :
              r.begin = terms[i].begin /\ r.end = terms[j].end
        /\ r.begin < r.end
        /\ IsFinal(dictionary, r.match)

(* C6's case: the tokens are exhausted, a state is alive at a node that does *)
(* not accept, and the results hold none for it.                             *)
C6_Witness ==
    /\ spc = "done"
    /\ results /= <<>>
    /\ \E s \in Range(active_states) :
          /\ ~IsFinal(dictionary, s.node)
          /\ \A r \in Range(results) : r.begin /= s.begin \/ r.match /= s.match

(* C8: when the processing of a token starts and the token before it is not *)
(* followed by a space, the active-state list is empty, so that the only     *)
(* state alive at the first character of the token is the one born there.    *)
C8_StatesClearedUnlessSpace ==
    (tok > 1 /\ tok <= Len(terms) /\ ~SpaceFollows(buffer, terms[tok - 1].end)) =>
        /\ spc = "token" => active_states = <<>>
        /\ (spc = "chars" /\ ci = 1) => active_states = <<NewState(terms[tok].begin)>>

(* C9: every result spans tokens i..j, its match is the normalized tokens   *)
(* i..j joined by single spaces and a dictionary entry, each of the tokens  *)
(* i..j-1 is followed by a space, and the surface equals the match when the *)
(* normalization changed no character of the buffer.                        *)
C9_Soundness ==
    \A r \in Range(results) :
        /\ \E i \in TokenIdx : \E j \in i..Len(terms) :
              /\ r.begin = terms[i].begin
              /\ r.end = terms[j].end
              /\ r.match = JoinTokens(i, j)
              /\ \A k \in i..(j - 1) : SpaceFollows(buffer, terms[k].end)
        /\ r.match \in dictionary
        /\ (\A k \in 1..Len(buffer) : NormalizeChar(buffer[k]) = buffer[k]) =>
              r.surface = r.match

(***************************************************************************)
(* Properties of SuffixArray (checked under SpecEval).                     *)
(***************************************************************************)
(* The positions (1-based) of the pointers whose suffix starts with query_norm. *)
MatchingIdx == {i \in 1..Len(suffixes) : Matching(haystack, suffixes[i], query_norm)}

(* The number of pointers counted so far. *)
RECURSIVE SumCounts(_)
SumCounts(cnt) == IF Len(cnt) = 0 THEN 0 ELSE Head(cnt)[2] + SumCounts(Tail(cnt))

(* The offsets of a text that are 0 or follow a space or delimiter character *)
(* and where the text goes on with q.                                        *)
Occurrences(text, q) ==
    Cardinality({o \in 0..(Len(text) - 1) :
        /\ o = 0 \/ text[o] \in {Chr.sp, Chr.nul}
        /\ IsPrefix(q, SliceFrom(text, o))})

DocIds == {haystack[k].doc_id : k \in 1..Len(haystack)}

TextOfDoc(d) == haystack[CHOOSE k \in 1..Len(haystack) : haystack[k].doc_id = d].text

Score(d) == Occurrences(TextOfDoc(d), query_norm)

MatchingDocs == {d \in DocIds : Score(d) > 0}

Min(x, y) == IF x < y THEN x ELSE y

(* C2: with a hit count of at least the number of documents, the score of   *)
(* every yielded document is the number of its offsets that are 0 or follow *)
(* a space or delimiter character and where its text goes on with the       *)
(* normalized query, and when evaluate is over every document with such an  *)
(* offset has been yielded.                                                 *)
C2_ExactScores ==
    (query_norm /= <<>> /\ ~options.is_none /\ options.hit_count >= Len(haystack)) =>
        /\ \A r \in Range(yielded) : r.score = Score(r.document)
        /\ epc = "done" =>
              \A d \in MatchingDocs : \E r \in Range(yielded) : r.document = d

(* C2's case: two documents are yielded, one of them for several occurrences. *)
C2_Witness ==
    /\ epc = "done"
    /\ ~options.is_none
    /\ options.hit_count >= Len(haystack)
    /\ Len(yielded) >= 2
    /\ \E r \in Range(yielded) : r.score >= 2 /\ r.score = Score(r.document)

(* C3: a call with options omitted and a query whose normalized form is not *)
(* empty raises no error, and yields what the call with                     *)
(* Options(hit_count=10) yields.                                            *)
C3_OptionsOptional ==
    (options.is_none /\ query_norm /= <<>>) =>
        /\ epc /= "raised"
        /\ epc = "done" =>
              LET want == MostCommon(counts, DefaultHitCount)
              IN  yielded = [k \in 1..Len(want) |->
                                [document |-> want[k][1], score |-> want[k][2]]]

(* C5: with hit_count = k >= 1 and M documents that match, a finished       *)
(* evaluate has yielded min(k, M) results, for distinct documents, in       *)
(* non-increasing score order, none with a score below that of a matching   *)
(* document it did not yield; with M = 0 it has yielded nothing and raised  *)
(* no error.                                                                *)
C5_TopK ==
    (~options.is_none /\ query_norm /= <<>>) =>
        /\ epc /= "raised"
        /\ epc = "done" =>
              /\ Len(yielded) = Min(options.hit_count, Cardinality(MatchingDocs))
              /\ \A m \in 1..Len(yielded) : \A n \in 1..Len(yielded) :
                    /\ m /= n => yielded[m].document /= yielded[n].document
                    /\ m < n => yielded[m].score >= yielded[n].score
              /\ \A r \in Range(yielded) :
                    \A d \in MatchingDocs :
                        (\A x \in Range(yielded) : x.document /= d) => r.score >= Score(d)

(* C5's case: more documents match than the hit count allows. *)
C5_Witness ==
    /\ epc = "done"
    /\ ~options.is_none
    /\ options.hit_count < Cardinality(MatchingDocs)
    /\ Len(yielded) = options.hit_count
    /\ \E d \in MatchingDocs : Score(d) < yielded[1].score

(* More than one document has a pointer in the matching run. *)
RunSpansDocuments == Cardinality({suffixes[i][1] : i \in MatchingIdx}) >= 2

(* C7 as claimed: when the first result is handed to the caller and the     *)
(* matching run has pointers of two or more documents, some pointer of the  *)
(* run has not been examined yet.                                           *)
C7_IncrementalScan ==
    (epc = "yield" /\ Len(yielded) = 1 /\ RunSpansDocuments) =>
        SumCounts(counts) < Cardinality(MatchingIdx)

(* C7, amended: nothing is examined before the first result is requested,   *)
(* and whenever a result has been handed to the caller every pointer of the *)
(* matching run has been examined and counted.                              *)
C7_ScanCompleteBeforeFirstResult ==
    /\ epc = "created" => (examined = 0 /\ counts = <<>>)
    /\ yielded /= <<>> =>
          /\ SumCounts(counts) = Cardinality(MatchingIdx)
          /\ examined >= Cardinality(MatchingIdx)

(* C7's case: the first result is in the caller's hands and the matching run *)
(* has pointers of two documents.                                            *)
C7_Witness ==
    /\ epc = "yield"
    /\ Len(yielded) = 1
    /\ RunSpansDocuments

(* C10: once the binary search is done, the pointers whose suffix starts    *)
(* with the normalized query are the block of the sorted pointer list that  *)
(* begins at start, and once the scan is over it has counted each of them   *)
(* once.                                                                    *)
C10_ContiguousRun ==
    (query_norm /= <<>> /\ epc \notin {"created", "bisect"}) =>
        /\ MatchingIdx = (start + 1)..(start + Cardinality(MatchingIdx))
        /\ epc /= "scan" =>
              /\ SumCounts(counts) = Cardinality(MatchingIdx)
              /\ examined = Min(Cardinality(MatchingIdx) + 1, Len(suffixes) - start)

(* C10's case: the run has several pointers, with pointers before and after it. *)
C10_Witness ==
    /\ epc = "rank"
    /\ start > 0
    /\ Cardinality(MatchingIdx) >= 2
    /\ start + Cardinality(MatchingIdx) < Len(suffixes)
    /\ SumCounts(counts) >= 2

====
